---- MODULE Spec2Model ----
(***************************************************************************)
(* Model of the fuzzy matcher of lang_tester (src/fuzzy.rs): match_vec and *)
(* match_line.  Text is a sequence of one-character strings, so trimming,  *)
(* line splitting, prefix and suffix tests are computed, not assumed.      *)
(* match_vec is modelled twice from the same lines of code: as a state     *)
(* machine that exposes the two cursors pi and si at every position of the *)
(* loop, and as the recursive operator MatchFrom that yields the result of *)
(* a whole call (needed to compare two calls).                             *)
(***************************************************************************)
EXTENDS Integers, Sequences, FiniteSets, TLC

VARIABLES plines, s, slines, pi, si, pc, outcome, iters

vars == <<plines, s, slines, pi, si, pc, outcome, iters>>

----------------------------------------------------------------------------
(* Bounds of the explored inputs *)

MaxPatLen == 3      \* pattern lines, paired with the line-built texts
MaxLines == 3       \* lines of a line-built text
MaxShortPat == 2    \* pattern lines, paired with the character-built texts
MaxTextLen == 3     \* characters of a character-built text
MaxPad == 2         \* whitespace characters put around a whole text

----------------------------------------------------------------------------
(* Strings *)

WILDCARD == <<".", ".", ".">>

Whitespace == {" ", "\t", "\n"}

IsWhitespace(c) == c \in Whitespace

RECURSIVE TrimStart(_)
TrimStart(t) ==
    IF t = <<>> THEN t
    ELSE IF IsWhitespace(Head(t)) THEN TrimStart(Tail(t))
    ELSE t

RECURSIVE TrimEnd(_)
TrimEnd(t) ==
    IF t = <<>> THEN t
    ELSE IF IsWhitespace(t[Len(t)]) THEN TrimEnd(SubSeq(t, 1, Len(t) - 1))
    ELSE t

TrimStartOnly(t) == TrimStart(t)

Trim(t) == TrimEnd(TrimStart(t))

\* str::lines: the pieces between "\n"; a final empty piece is not a line.
RECURSIVE SplitLines(_, _)
SplitLines(t, cur) ==
    IF t = <<>> THEN (IF cur = <<>> THEN <<>> ELSE <<cur>>)
    ELSE IF Head(t) = "\n" THEN <<cur>> \o SplitLines(Tail(t), <<>>)
    ELSE SplitLines(Tail(t), Append(cur, Head(t)))

Lines(t) == SplitLines(t, <<>>)

StartsWith(x, pre) ==
    /\ Len(pre) <= Len(x)
    /\ SubSeq(x, 1, Len(pre)) = pre

EndsWith(x, suf) ==
    /\ Len(suf) <= Len(x)
    /\ SubSeq(x, Len(x) - Len(suf) + 1, Len(x)) = suf

\* s.trim().lines().map(|x| x.trim()).collect()
SLines(t) ==
    LET ls == Lines(Trim(t))
    IN  [i \in 1..Len(ls) |-> Trim(ls[i])]

match_line(p, l) ==
    \/ /\ StartsWith(p, WILDCARD)
       /\ EndsWith(l, SubSeq(p, Len(WILDCARD) + 1, Len(p)))
    \/ p = l

ScanNoBreak(p, sl, j) == Len(sl)

ScanAdvanceOnce(p, sl, j) == IF j < Len(sl) THEN j + 1 ELSE j

\* The inner while loop: from cursor j, the cursor it stops at.
RECURSIVE Scan(_, _, _)
Scan(p, sl, j) ==
    IF j < Len(sl)
    THEN IF match_line(p, sl[j + 1]) THEN j ELSE Scan(p, sl, j + 1)
    ELSE j

\* The loop of match_vec from cursors (i, j): "true", "false" or "panic".
RECURSIVE MatchFrom(_, _, _, _)
MatchFrom(pl, sl, i, j) ==
    IF ~(i < Len(pl) /\ j < Len(sl)) THEN "true"
    ELSE IF pl[i + 1] = WILDCARD
    THEN IF i + 1 = Len(pl) THEN "true"
         ELSE IF pl[i + 2] = WILDCARD THEN "panic"
         ELSE LET k == Scan(pl[i + 2], sl, j)
              IN  IF k = Len(sl) THEN "false" ELSE MatchFrom(pl, sl, i + 1, k)
    ELSE IF match_line(pl[i + 1], sl[j + 1]) THEN MatchFrom(pl, sl, i + 1, j + 1)
    ELSE "false"

match_vec(pl, t) == MatchFrom(pl, SLines(t), 0, 0)

----------------------------------------------------------------------------
(* Inputs *)

SeqsUpTo(S, n) == UNION {[1..k -> S] : k \in 0..n}

PatLines ==
    { WILDCARD, <<"a">>, <<"A">>, WILDCARD \o <<"a">>, <<"a">> \o WILDCARD }

LineSet == { <<"a">>, <<"A">> }

TextChars == {"a", "A", " ", "\n"}

RECURSIVE JoinLines(_)
JoinLines(ls) ==
    IF ls = <<>> THEN <<>>
    ELSE IF Len(ls) = 1 THEN ls[1]
    ELSE ls[1] \o <<"\n">> \o JoinLines(Tail(ls))

LineTexts == { JoinLines(ls) : ls \in SeqsUpTo(LineSet, MaxLines) }

CharTexts == SeqsUpTo(TextChars, MaxTextLen)

Inputs ==
    (SeqsUpTo(PatLines, MaxPatLen) \X LineTexts)
        \cup (SeqsUpTo(PatLines, MaxShortPat) \X CharTexts)

----------------------------------------------------------------------------
(* match_vec as a state machine *)

Init ==
    /\ \E in \in Inputs : plines = in[1] /\ s = in[2]
    /\ slines = <<>>
    /\ pi = 0
    /\ si = 0
    /\ pc = "start"
    /\ outcome = "none"
    /\ iters = 0

Return(v) ==
    /\ pc' = "done"
    /\ outcome' = v

\* Lines 15-18.
Normalize ==
    /\ pc = "start"
    /\ slines' = SLines(s)
    /\ pi' = 0
    /\ si' = 0
    /\ pc' = "loop"
    /\ UNCHANGED <<plines, s, outcome, iters>>

\* Line 20, condition true.
LoopEnter ==
    /\ pc = "loop"
    /\ pi < Len(plines) /\ si < Len(slines)
    /\ pc' = "body"
    /\ iters' = iters + 1
    /\ UNCHANGED <<plines, s, slines, pi, si, outcome>>

LoopExitStrict ==
    /\ pc = "loop"
    /\ ~(pi < Len(plines) /\ si < Len(slines))
    /\ Return(IF pi = Len(plines) /\ si = Len(slines) THEN "true" ELSE "false")
    /\ UNCHANGED <<plines, s, slines, pi, si, iters>>

\* Line 20, condition false; line 45.
LoopExit ==
    /\ pc = "loop"
    /\ ~(pi < Len(plines) /\ si < Len(slines))
    /\ Return("true")
    /\ UNCHANGED <<plines, s, slines, pi, si, iters>>

\* Lines 21-22.
Wildcard ==
    /\ pc = "body"
    /\ plines[pi + 1] = WILDCARD
    /\ pi' = pi + 1
    /\ pc' = "wild"
    /\ UNCHANGED <<plines, s, slines, si, outcome, iters>>

\* Lines 23-25.
TrailingWildcard ==
    /\ pc = "wild"
    /\ pi = Len(plines)
    /\ Return("true")
    /\ UNCHANGED <<plines, s, slines, pi, si, iters>>

\* Lines 26-28.
ConsecutiveWildcard ==
    /\ pc = "wild"
    /\ pi # Len(plines)
    /\ plines[pi + 1] = WILDCARD
    /\ Return("panic")
    /\ UNCHANGED <<plines, s, slines, pi, si, iters>>

\* Lines 29-34.
ScanLoop ==
    /\ pc = "wild"
    /\ pi # Len(plines)
    /\ plines[pi + 1] # WILDCARD
    /\ si' = Scan(plines[pi + 1], slines, si)
    /\ pc' = "scanned"
    /\ UNCHANGED <<plines, s, slines, pi, outcome, iters>>

\* Lines 35-37, condition true.
ScanFail ==
    /\ pc = "scanned"
    /\ si = Len(slines)
    /\ Return("false")
    /\ UNCHANGED <<plines, s, slines, pi, si, iters>>

\* Lines 35-37, condition false: next iteration.
ScanFound ==
    /\ pc = "scanned"
    /\ si # Len(slines)
    /\ pc' = "loop"
    /\ UNCHANGED <<plines, s, slines, pi, si, outcome, iters>>

MatchStepKeepsPi ==
    /\ pc = "body"
    /\ plines[pi + 1] # WILDCARD
    /\ match_line(plines[pi + 1], slines[si + 1])
    /\ si' = si + 1
    /\ pc' = "loop"
    /\ UNCHANGED <<plines, s, slines, pi, outcome, iters>>

\* Lines 38-40.
MatchStep ==
    /\ pc = "body"
    /\ plines[pi + 1] # WILDCARD
    /\ match_line(plines[pi + 1], slines[si + 1])
    /\ pi' = pi + 1
    /\ si' = si + 1
    /\ pc' = "loop"
    /\ UNCHANGED <<plines, s, slines, outcome, iters>>

\* Lines 41-43.
Mismatch ==
    /\ pc = "body"
    /\ plines[pi + 1] # WILDCARD
    /\ ~match_line(plines[pi + 1], slines[si + 1])
    /\ Return("false")
    /\ UNCHANGED <<plines, s, slines, pi, si, iters>>

Next ==
    \/ Normalize
    \/ LoopEnter
    \/ LoopExit
    \/ Wildcard
    \/ TrailingWildcard
    \/ ConsecutiveWildcard
    \/ ScanLoop
    \/ ScanFail
    \/ ScanFound
    \/ MatchStep
    \/ Mismatch

Spec == Init /\ [][Next]_vars

----------------------------------------------------------------------------
(* Sanity: the state machine and the recursive operator are the same code *)

TypeOK ==
    /\ pc \in {"start", "loop", "body", "wild", "scanned", "done"}
    /\ outcome \in {"none", "true", "false", "panic"}
    /\ (pc = "done") <=> (outcome # "none")
    /\ pi \in Nat /\ si \in Nat /\ iters \in Nat

MachineAgrees == pc = "done" => outcome = match_vec(plines, s)

----------------------------------------------------------------------------
(* Vocabulary of the claims *)

Done == pc = "done"

\* Neither the wildcard itself nor a line that starts or ends with it.
NoWildcardLine(p) ==
    /\ p # WILDCARD
    /\ ~StartsWith(p, WILDCARD)
    /\ ~EndsWith(p, WILDCARD)

IsLiteral(p) ==
    /\ NoWildcardLine(p)
    /\ p # <<>>
    /\ ~IsWhitespace(p[1]) /\ ~IsWhitespace(p[Len(p)])

NoWildcardPattern == \A k \in 1..Len(plines) : NoWildcardLine(plines[k])

HasConsecutiveWildcards ==
    \E k \in 1..(Len(plines) - 1) : plines[k] = WILDCARD /\ plines[k + 1] = WILDCARD

\* No actual line at or after cursor j satisfies match_line against q.
NoneMatchesFrom(q, j) ==
    \A k \in (j + 1)..Len(slines) : ~match_line(q, slines[k])

InsertAt(t, k, c) == SubSeq(t, 1, k) \o <<c>> \o SubSeq(t, k + 1, Len(t))

LineStart(t, k) == k = 0 \/ t[k] = "\n"

LineEnd(t, k) == k = Len(t) \/ t[k + 1] = "\n"

Pads == SeqsUpTo(Whitespace, MaxPad) \ {<<>>}

\* t with whitespace put before or after the whole text, or a space or a tab
\* put at the start or the end of one of its lines.
Variants(t) ==
    {w \o t : w \in Pads} \cup {t \o w : w \in Pads}
        \cup { InsertAt(t, k, c) :
                 k \in {n \in 0..Len(t) : LineStart(t, n) \/ LineEnd(t, n)},
                 c \in {" ", "\t"} }

Lower(c) == IF c = "A" THEN "a" ELSE c

CaseDiffers(p, l) ==
    /\ Len(p) = Len(l)
    /\ p # l
    /\ \A i \in 1..Len(p) : Lower(p[i]) = Lower(l[i])

MidLines == SeqsUpTo(TextChars \ {"\n"}, 1)

\* Decreases with every step of the loop: 5 per pattern line still ahead.
PcRank ==
    CASE pc = "start" -> 8
      [] pc = "wild" -> 6
      [] pc = "scanned" -> 4
      [] pc = "loop" -> 3
      [] pc = "body" -> 2
      [] pc = "done" -> 0

Rank == 5 * (Len(plines) - pi) + PcRank

----------------------------------------------------------------------------
(* Claims *)

\* C1: for a pattern with no wildcard line, match_vec returns true if and only
\* if the trimmed, line-split, line-trimmed actual text equals the pattern.
C1_NoWildcardIsEquality ==
    (Done /\ NoWildcardPattern) => ((outcome = "true") <=> (slines = plines))

\* C2: a pattern line `<prefix>...` with a non-empty prefix matches every
\* actual line that starts with the prefix, just as `...<suffix>` matches
\* every actual line that ends with the suffix.
C2_BothWildcardPositions ==
    pc = "body" =>
        LET p == plines[pi + 1]
            l == slines[si + 1]
            n == Len(WILDCARD)
        IN  /\ (/\ EndsWith(p, WILDCARD) /\ Len(p) > n
                /\ StartsWith(l, SubSeq(p, 1, Len(p) - n)))
                   => match_line(p, l)
            /\ (/\ StartsWith(p, WILDCARD) /\ Len(p) > n
                /\ EndsWith(l, SubSeq(p, n + 1, Len(p))))
                   => match_line(p, l)

\* C3: a pattern with two consecutive literal wildcard lines always ends in
\* the fatal error, whatever the actual text: never true, never false.
C3_ConsecutiveWildcardsFatal ==
    (Done /\ HasConsecutiveWildcards) => outcome = "panic"

\* C4: the empty pattern passes exactly when the trimmed actual text is empty.
C4_EmptyPatternNeedsEmptyText ==
    (Done /\ plines = <<>>) => ((outcome = "true") <=> (Trim(s) = <<>>))

\* C5: when the cursor reaches a standalone wildcard followed by a line q and
\* no actual line at or after the actual cursor satisfies match_line(q, line)
\* (the actual lines may already be exhausted), match_vec returns false.
C5_LineAfterWildcardMustBeFound ==
    (/\ pc = "loop"
     /\ pi + 1 < Len(plines)
     /\ plines[pi + 1] = WILDCARD
     /\ plines[pi + 2] # WILDCARD
     /\ NoneMatchesFrom(plines[pi + 2], si))
        => MatchFrom(plines, slines, pi, si) = "false"

\* C6: [x, `...`, y] matches the line x, then any zero or more lines, then the
\* line y; [`...`, y] matches any zero or more lines followed by the line y.
C6_WildcardSkipsZeroOrMore ==
    Done =>
        /\ (/\ Len(plines) = 3
            /\ IsLiteral(plines[1]) /\ plines[2] = WILDCARD /\ IsLiteral(plines[3])
            /\ \E M \in SeqsUpTo(MidLines, MaxLines) :
                 s = JoinLines(<<plines[1]>> \o M \o <<plines[3]>>))
               => outcome = "true"
        /\ (/\ Len(plines) = 2
            /\ plines[1] = WILDCARD /\ IsLiteral(plines[2])
            /\ \E M \in SeqsUpTo(MidLines, MaxLines) :
                 s = JoinLines(M \o <<plines[2]>>))
               => outcome = "true"

C6_Witness ==
    /\ Done /\ outcome = "true"
    /\ Len(plines) = 3
    /\ IsLiteral(plines[1]) /\ plines[2] = WILDCARD /\ IsLiteral(plines[3])
    /\ \E M \in SeqsUpTo(MidLines, MaxLines) :
         /\ M # <<>>
         /\ s = JoinLines(<<plines[1]>> \o M \o <<plines[3]>>)

\* C7: whitespace put around the whole text, or spaces and tabs put at the
\* start or end of a line, never change the outcome of match_vec; a literal
\* pattern line never matches an actual line that differs from it in case.
C7_WhitespaceIgnoredCaseKept ==
    /\ Done => \A t \in Variants(s) : match_vec(plines, t) = outcome
    /\ (/\ pc = "body"
        /\ NoWildcardLine(plines[pi + 1])
        /\ CaseDiffers(plines[pi + 1], slines[si + 1]))
           => ~match_line(plines[pi + 1], slines[si + 1])

C7_Witness ==
    /\ Done /\ outcome = "true"
    /\ plines # <<>> /\ slines = plines
    /\ s # JoinLines(slines)
    /\ \E t \in Variants(s) : SLines(t) = plines /\ t # s

C9_GreedyNoBacktracking ==
    [][/\ (pc = "wild" /\ pc' = "scanned") =>
            /\ si <= si' /\ si' <= Len(slines)
            /\ si' < Len(slines) => match_line(plines[pi + 1], slines[si' + 1])
            /\ \A j \in si..(si' - 1) : ~match_line(plines[pi + 1], slines[j + 1])
       /\ (/\ pc = "body"
           /\ plines[pi + 1] # WILDCARD
           /\ ~match_line(plines[pi + 1], slines[si + 1]))
             => (pc' = "done" /\ outcome' = "false" /\ si' = si /\ pi' = pi)
       /\ si' >= si]_vars

\* The first candidate was taken and the match failed, although a later
\* candidate line would have been followed by a match of the next pattern line.
C9_Witness ==
    /\ Done /\ outcome = "false"
    /\ Len(plines) = 3 /\ plines[1] = WILDCARD /\ pi = 2
    /\ \E j \in (si + 1)..(Len(slines) - 1) :
         /\ match_line(plines[2], slines[j])
         /\ match_line(plines[3], slines[j + 1])

\* C10: the cursors stay within 0..length, every indexing is in range, the
\* outer loop runs at most |pattern| times with pi equal to the number of
\* iterations at every loop test, no cursor decreases, and every step
\* decreases a natural-number rank, so the call terminates.
C10_BoundedAndTerminating ==
    /\ [](/\ 0 <= pi /\ pi <= Len(plines)
          /\ 0 <= si /\ si <= Len(slines)
          /\ iters <= Len(plines)
          /\ pc = "body" => (pi < Len(plines) /\ si < Len(slines))
          /\ pc = "scanned" => pi < Len(plines)
          /\ pc = "loop" => pi = iters
          /\ Rank >= 0)
    /\ [][pi' >= pi /\ si' >= si /\ Rank' < Rank]_vars

\* A run that used every iteration it may use, one of them a scan that moved si.
C10_Witness ==
    /\ Done /\ outcome = "true"
    /\ iters = Len(plines) /\ iters >= 3
    /\ pi = Len(plines) /\ si = Len(slines)
    /\ plines[1] = WILDCARD /\ ~match_line(plines[2], slines[1])

====
